---- MODULE Spec2Model ----
(***************************************************************************)
(* The three git-filter-repo callbacks of clean-secrets-callbacks:         *)
(*   commit.py     the progress ledger   (record a visited commit)         *)
(*   file-info.py  the blob scrubber     (blank the lines of a finding)    *)
(*   message.py    the message redactor  (replace SECRET in a message)     *)
(* Each file is the BODY of a function the driver builds once and calls    *)
(* once per history element; globals() is that function's private          *)
(* dictionary and lives as long as the process.  One action below is one   *)
(* whole invocation of a callback.                                         *)
(*                                                                         *)
(* Bytes are numbers (their byte value), decoded text is a sequence of     *)
(* one-character strings.  Timestamps of the log lines are left out: they  *)
(* come from the wall clock and nothing depends on them.                   *)
(***************************************************************************)
EXTENDS Integers, Sequences, FiniteSets, TLC

VARIABLES
    total_commits,     \* commit.py globals()["total_commits"], or unset
    seen_hashes,       \* commit.py globals()["seen_hashes"]
    processed_count,   \* commit.py globals()["processed_count"]
    progress_file,     \* lines of $PROGRESS_FILE (survives the process)
    callback_log,      \* lines of $CALLBACK_LOG  (survives the process)
    next_blob,         \* number of blobs the driver has stored for the callback
    store_ops,         \* get/insert requests the last invocation made to the driver
    call,              \* the last invocation: callback and arguments
    result,            \* what the last invocation handed back to the driver
    run_start,         \* length of progress_file when the process started
    history,           \* commit hashes passed to the commit callback in this process
    faulted,           \* some commit callback of this process raised
    findings_reads,    \* times $GITLEAKS_FILE was opened in this process
    ncalls,            \* callback invocations so far
    runs               \* process starts so far

vars ==
    << total_commits, seen_hashes, processed_count, progress_file, callback_log,
       next_blob, store_ops, call, result, run_start, history, faulted,
       findings_reads, ncalls, runs >>

----------------------------------------------------------------------------
(* Bounds *)

MaxLedgerCalls == 4
MaxRuns == 2
MaxFragments == 3
MaxScrubCalls == 2
MaxContentLen == 3
MaxFindings == 2
MaxLine == 2
MaxCalls == 2

----------------------------------------------------------------------------
(* Values shared by the callbacks *)

Unset == [kind |-> "unset"]

IntValue(n) == [kind |-> "int", n |-> n]

NonNumber == [kind |-> "str"]

Returned(v) == [kind |-> "returned", value |-> v]

Raised(e) == [kind |-> "raised", error |-> e]

NoValue == [kind |-> "none"]

RECURSIVE Range(_)
Range(s) ==
    IF s = << >> THEN {} ELSE {Head(s)} \cup Range(Tail(s))

----------------------------------------------------------------------------
(* commit.py *)

CommitHashes == {"c1", "c2"}

\* What $STATS_FILE can hold when it is first needed.
StatsSources ==
    { [kind |-> "missing"], [kind |-> "unparsable"], [kind |-> "array"],
      [kind |-> "object", has |-> FALSE, value |-> IntValue(0)],
      [kind |-> "object", has |-> TRUE, value |-> IntValue(0)],
      [kind |-> "object", has |-> TRUE, value |-> IntValue(3)],
      [kind |-> "object", has |-> TRUE, value |-> NonNumber] }

\* A reader without the default: what cannot be read is no number.
ReadStatsNoDefault(stats) ==
    IF stats.kind = "object" /\ stats.has THEN stats.value ELSE NonNumber

\* try: json.load(f).get("total_commits", 0)  except Exception: 0
ReadStats(stats) ==
    IF stats.kind = "object"
    THEN IF stats.has THEN stats.value ELSE IntValue(0)
    ELSE IntValue(0)

\* A log_callback that opens the file with "w": the line replaces the file.
log_commit_truncating(log, logOK, message) ==
    IF logOK THEN << <<"COMMIT">> \o message >> ELSE log

\* log_callback of commit.py: append one line, or nothing when the write fails.
log_commit(log, logOK, message) ==
    IF logOK THEN Append(log, <<"COMMIT">> \o message) ELSE log

\* (processed_count / total_commits) * 100 formatted "%.1f", in tenths of a
\* percent; 0 when total_commits is not positive.
Percentage(count, total) ==
    IF total > 0 THEN (2000 * count + total) \div (2 * total) ELSE 0

ProgressLine(commit_hash, total, count, pct) ==
    [id |-> commit_hash, total |-> total, processed |-> count, pct |-> pct]

\* Variants of the duplicate test that the properties below must tell apart
\* from the real one.
IsDuplicateNever(commit_hash) == FALSE

IsDuplicatePersisted(commit_hash) ==
    \/ commit_hash \in seen_hashes
    \/ \E i \in 1..Len(progress_file) : progress_file[i].id = commit_hash

\* commit_hash not in globals()["seen_hashes"], negated
IsDuplicate(commit_hash) == commit_hash \in seen_hashes

\* One invocation of the commit callback.
\*   stats   what $STATS_FILE holds now (read only when total_commits is unset)
\*   progOK  whether $PROGRESS_FILE can be opened for append during the call
\*   logOK   whether $CALLBACK_LOG can be opened for append during the call
Record(commit_hash, stats, progOK, logOK) ==
    LET first == total_commits.kind = "unset"
        total == IF first THEN ReadStats(stats) ELSE total_commits
        count == processed_count + 1
        log1  == log_commit(callback_log, logOK, <<"Processing commit", commit_hash>>)
    IN  /\ total_commits' = total
        /\ call' = [op |-> "record", commit_hash |-> commit_hash,
                    stats |-> IF first THEN stats ELSE [kind |-> "notread"]]
        /\ history' = Append(history, commit_hash)
        /\ ncalls' = ncalls + 1
        /\ store_ops' = << >>
        /\ UNCHANGED << next_blob, run_start, findings_reads, runs >>
        /\ IF ~IsDuplicate(commit_hash)
           THEN /\ seen_hashes' = seen_hashes \cup {commit_hash}
                /\ processed_count' = count
                /\ IF total.kind # "int"
                   THEN \* total_commits > 0 raises TypeError
                        /\ result' = Raised("percentage")
                        /\ faulted' = TRUE
                        /\ callback_log' = log1
                        /\ UNCHANGED progress_file
                   ELSE IF ~progOK
                   THEN \* open(PROGRESS_FILE, "a") raises, nothing catches it
                        /\ result' = Raised("progress_write")
                        /\ faulted' = TRUE
                        /\ callback_log' = log1
                        /\ UNCHANGED progress_file
                   ELSE LET pct == Percentage(count, total.n) IN
                        /\ progress_file' = Append(progress_file,
                               ProgressLine(commit_hash, total.n, count, pct))
                        /\ callback_log' = log_commit(log1, logOK,
                               <<"Added commit", commit_hash, count, total.n, pct>>)
                        /\ result' = Returned(NoValue)
                        /\ UNCHANGED faulted
           ELSE /\ callback_log' = log_commit(log1, logOK,
                       <<"already processed", commit_hash>>)
                /\ result' = Returned(NoValue)
                /\ UNCHANGED << seen_hashes, processed_count, progress_file, faulted >>

----------------------------------------------------------------------------
(* message.py *)

\* b"SECRET"
SECRET == << 83, 69, 67, 82, 69, 84 >>

\* b"[REDACTED]"
REDACTED == << 91, 82, 69, 68, 65, 67, 84, 69, 68, 93 >>

\* Pieces the commit messages are put together from:
\* "SECRET", "SEC", "RET", "S", "secret", "Secret", "[REDACTED]", "m".
Fragments ==
    { SECRET, << 83, 69, 67 >>, << 82, 69, 84 >>, << 83 >>,
      << 115, 101, 99, 114, 101, 116 >>, << 83, 101, 99, 114, 101, 116 >>,
      REDACTED, << 109 >> }

RECURSIVE Concatenations(_)
Concatenations(n) ==
    IF n = 0 THEN { << >> }
    ELSE LET shorter == Concatenations(n - 1)
         IN  shorter \cup { m \o f : m \in shorter, f \in Fragments }

Messages == Concatenations(MaxFragments)

OccursAt(message, pattern, i) ==
    /\ i + Len(pattern) - 1 <= Len(message)
    /\ SubSeq(message, i, i + Len(pattern) - 1) = pattern

\* pattern in message
Contains(message, pattern) ==
    \E i \in 1..Len(message) : OccursAt(message, pattern, i)

\* message.find(pattern) + 1, or 0 when pattern does not occur
Find(message, pattern) ==
    IF Contains(message, pattern)
    THEN CHOOSE i \in 1..Len(message) :
            /\ OccursAt(message, pattern, i)
            /\ \A j \in 1..(i - 1) : ~OccursAt(message, pattern, j)
    ELSE 0

\* message.replace(old, new) for a non-empty old: the occurrences are taken
\* from the left and do not overlap.
RECURSIVE Replace(_, _, _)
Replace(message, old, new) ==
    LET i == Find(message, old)
    IN  IF i = 0 THEN message
        ELSE SubSeq(message, 1, i - 1) \o new
                \o Replace(SubSeq(message, i + Len(old), Len(message)), old, new)

\* Variants of the callback that the properties below must tell apart from
\* the real one: only the first occurrence is replaced; the match ignores case.
redact_first_only(message) ==
    LET i == Find(message, SECRET)
    IN  IF i = 0 THEN message
        ELSE SubSeq(message, 1, i - 1) \o REDACTED
                \o SubSeq(message, i + Len(SECRET), Len(message))

UpperCase(message) ==
    [ i \in 1..Len(message) |->
        IF message[i] >= 97 /\ message[i] <= 122 THEN message[i] - 32 ELSE message[i] ]

RECURSIVE redact_ignore_case(_)
redact_ignore_case(message) ==
    LET i == Find(UpperCase(message), SECRET)
    IN  IF i = 0 THEN message
        ELSE SubSeq(message, 1, i - 1) \o REDACTED
                \o redact_ignore_case(SubSeq(message, i + Len(SECRET), Len(message)))

\* The value the message callback returns.
redact(message) ==
    IF Contains(message, SECRET) THEN Replace(message, SECRET, REDACTED) ELSE message

\* log_callback of message.py
log_message(log, logOK, message) ==
    IF logOK THEN Append(log, <<"MESSAGE">> \o message) ELSE log

\* One invocation of the message callback.
Redact(message, logOK) ==
    LET log1 == log_message(callback_log, logOK, <<"Processing commit message">>)
    IN  /\ IF Contains(message, SECRET)
           THEN callback_log' =
                    log_message(
                        log_message(log1, logOK, <<"Found 'SECRET' in commit message, redacting...">>),
                        logOK, <<"Commit message redacted successfully">>)
           ELSE callback_log' =
                    log_message(log1, logOK,
                        <<"No 'SECRET' found in commit message, returning unchanged">>)
        /\ result' = Returned([kind |-> "bytes", bytes |-> redact(message)])
        /\ call' = [op |-> "redact", message |-> message]
        /\ ncalls' = ncalls + 1
        /\ store_ops' = << >>
        /\ UNCHANGED << total_commits, seen_hashes, processed_count, progress_file,
                        next_blob, run_start, history, faulted, findings_reads, runs >>

----------------------------------------------------------------------------
(* file-info.py *)

\* The characters of the bytes that decode; every other byte (255 below) is
\* not valid UTF-8.
Chars ==
    (10 :> "\n") @@ (13 :> "\r") @@ (120 :> "x") @@ (97 :> "a") @@ (98 :> "b") @@ (65 :> "A")

\* bytes.decode("utf-8", errors="ignore"): invalid bytes are dropped
RECURSIVE decode(_)
decode(bytes) ==
    IF bytes = << >> THEN << >>
    ELSE (IF Head(bytes) \in DOMAIN Chars THEN << Chars[Head(bytes)] >> ELSE << >>)
            \o decode(Tail(bytes))

\* str.encode("utf-8")
encode(text) ==
    [ i \in 1..Len(text) |-> CHOOSE b \in DOMAIN Chars : Chars[b] = text[i] ]

\* str.splitlines(): a line ends at "\n", "\r" or "\r\n"; no empty last line
\* after a final line end.
RECURSIVE SplitFrom(_, _, _, _)
SplitFrom(text, i, line, done) ==
    IF i > Len(text)
    THEN IF line = << >> THEN done ELSE Append(done, line)
    ELSE IF text[i] = "\n"
    THEN SplitFrom(text, i + 1, << >>, Append(done, line))
    ELSE IF text[i] = "\r"
    THEN IF i < Len(text) /\ text[i + 1] = "\n"
         THEN SplitFrom(text, i + 2, << >>, Append(done, line))
         ELSE SplitFrom(text, i + 1, << >>, Append(done, line))
    ELSE SplitFrom(text, i + 1, Append(line, text[i]), done)

splitlines(text) == SplitFrom(text, 1, << >>, << >>)

\* "\n".join(lines)
RECURSIVE join(_)
join(lines) ==
    IF lines = << >> THEN << >>
    ELSE IF Len(lines) = 1 THEN lines[1]
    ELSE lines[1] \o << "\n" >> \o join(Tail(lines))

\* "\n".join(lines).encode("utf-8"), without the final newline
ReEncodeNoNewline(lines) == encode(join(lines))

\* "\n".join(lines).encode("utf-8") + b"\n"
ReEncode(lines) == encode(join(lines)) \o << 10 >>

\* What $GITLEAKS_FILE can hold: it cannot be opened, it is not JSON, or it
\* is a JSON array of entries; an entry without its keys makes e["File"] or
\* e["StartLine"] raise.  (A JSON value the loop runs over zero times, such
\* as {}, loads like the empty array.)
Finding(file, line) == [keys |-> TRUE, File |-> file, StartLine |-> line]

BadEntry == [keys |-> FALSE, File |-> << >>, StartLine |-> 0]

FindingEntries ==
    { Finding(<< "a" >>, n) : n \in 0..MaxLine } \cup { Finding(<< "b" >>, 1), BadEntry }

RECURSIVE EntryLists(_)
EntryLists(n) ==
    IF n = 0 THEN { << >> }
    ELSE LET shorter == EntryLists(n - 1)
         IN  shorter \cup { Append(l, e) : l \in shorter, e \in FindingEntries }

JsonArray(entries) == [kind |-> "json", entries |-> entries]

FindingsSources ==
    { [kind |-> "unreadable", entries |-> << >>], [kind |-> "invalid", entries |-> << >>] }
        \cup { JsonArray(l) : l \in EntryLists(MaxFindings) }

\* The entries the loop of lines 18-20 gets through: all of them, or those
\* before the first one that raises.
Loadable(source) ==
    /\ source.kind = "json"
    /\ \A i \in 1..Len(source.entries) : source.entries[i].keys

LoadedPrefix(source) ==
    IF source.kind # "json" THEN 0
    ELSE IF Loadable(source) THEN Len(source.entries)
    ELSE (CHOOSE i \in 1..Len(source.entries) :
             /\ ~source.entries[i].keys
             /\ \A j \in 1..(i - 1) : source.entries[j].keys) - 1

PairsOf(source, n) ==
    { << source.entries[i].File, source.entries[i].StartLine >> : i \in 1..n }

\* A loader that swallows the failure and keeps what it has built so far.
LoadFindingsLenient(source) ==
    [ok |-> TRUE, bad_lines |-> PairsOf(source, LoadedPrefix(source))]

\* Lines 16-20: bad_lines as built from the source; ok is FALSE when open,
\* json.load or an entry raised.
LoadFindings(source) ==
    [ok |-> Loadable(source), bad_lines |-> PairsOf(source, LoadedPrefix(source))]

\* A path test that ignores case.
has_secret_ignore_case(bad_lines, decoded_filename) ==
    \E key \in bad_lines :
        UpperCase(encode(key[1])) = UpperCase(encode(decoded_filename))

\* any(f == decoded_filename for (f, _) in bad_lines)
has_secret(bad_lines, decoded_filename) ==
    \E key \in bad_lines : key[1] = decoded_filename

\* A range test that lets line 0 through.
InRangeFromZero(lnum, n) == 0 <= lnum /\ lnum <= n

\* 0 < lnum <= len(lines)
InRange(lnum, n) == 0 < lnum /\ lnum <= n

\* del lines[lnum - 1]: the line is taken out instead of emptied.
RemoveLine(lines, lnum) ==
    IF lnum \in 1..Len(lines)
    THEN SubSeq(lines, 1, lnum - 1) \o SubSeq(lines, lnum + 1, Len(lines))
    ELSE lines

\* lines[lnum - 1] = "": a negative index counts from the end of the list.
BlankLine(lines, lnum) ==
    LET pos == IF lnum - 1 < 0 THEN Len(lines) + lnum ELSE lnum
    IN  IF pos \in 1..Len(lines) THEN [lines EXCEPT ![pos] = << >>] ELSE lines

\* The orders in which "for (f, lnum) in list(bad_lines)" can visit the set.
Orders(S) ==
    { o \in [1..Cardinality(S) -> S] : \A x \in S : \E i \in DOMAIN o : o[i] = x }

\* A test that forgets the path.
HitsAnyFile(key, decoded_filename, n) == InRange(key[2], n)

\* f == decoded_filename and 0 < lnum <= len(lines)
Hits(key, decoded_filename, n) == key[1] = decoded_filename /\ InRange(key[2], n)

\* Lines 44-48: the lines after the loop.
RECURSIVE Clean(_, _, _)
Clean(lines, order, decoded_filename) ==
    IF order = << >> THEN lines
    ELSE LET key == Head(order)
         IN  Clean(IF Hits(key, decoded_filename, Len(lines))
                   THEN BlankLine(lines, key[2]) ELSE lines,
                   Tail(order), decoded_filename)

\* Lines 39-51: the bytes stored for the bytes fetched.
CleanedContents(contents, order, decoded_filename) ==
    ReEncode(Clean(splitlines(decode(contents)), order, decoded_filename))

\* Lines 44-48: the line numbers logged as removed, in the order visited.
Removed(order, decoded_filename, n) ==
    SelectSeq(order, LAMBDA key : Hits(key, decoded_filename, n))

\* log_callback of file-info.py
log_file_info(log, logOK, message) ==
    IF logOK THEN Append(log, <<"FILE_INFO">> \o message) ELSE log

RECURSIVE log_removed(_, _, _, _)
log_removed(log, logOK, removed, decoded_filename) ==
    IF removed = << >> THEN log
    ELSE log_removed(
            log_file_info(log, logOK,
                <<"Removed secret from line", Head(removed)[2], decoded_filename>>),
            logOK, Tail(removed), decoded_filename)

Entry(filename, mode, blob_id) ==
    [kind |-> "entry", filename |-> filename, mode |-> mode, blob_id |-> blob_id]

OriginalBlob(n) == [kind |-> "original", n |-> n]

NewBlob(n) == [kind |-> "new", n |-> n]

\* One invocation of the file-info callback.  bad_lines is assigned inside
\* the callback's body, so it is a local of the invocation: globals() never
\* holds it and every invocation loads the source.
\*   contents  what value.get_contents_by_identifier(blob_id) answers
\*   source    what $GITLEAKS_FILE holds now
Scrub(filename, mode, blob_id, contents, source, logOK) ==
    LET loaded == LoadFindings(source)
        bad_lines == loaded.bad_lines
        log1 == log_file_info(callback_log, logOK,
                    <<"Loaded secret locations", Cardinality(bad_lines)>>)
        decoded_filename == decode(filename)
        log2 == log_file_info(log1, logOK, <<"Processing file", decoded_filename>>)
        lines == splitlines(decode(contents))
    IN  /\ call' = [op |-> "scrub", filename |-> filename, mode |-> mode,
                    blob_id |-> blob_id, source |-> source]
        /\ ncalls' = ncalls + 1
        /\ findings_reads' =
              IF source.kind = "unreadable" THEN findings_reads ELSE findings_reads + 1
        /\ UNCHANGED << total_commits, seen_hashes, processed_count, progress_file,
                        run_start, history, faulted, runs >>
        /\ IF ~loaded.ok
           THEN /\ result' = Raised("findings_load")
                /\ store_ops' = << >>
                /\ UNCHANGED << callback_log, next_blob >>
           ELSE IF ~has_secret(bad_lines, decoded_filename)
           THEN /\ callback_log' = log_file_info(log2, logOK,
                       <<"No secrets found", decoded_filename>>)
                /\ result' = Returned(Entry(filename, mode, blob_id))
                /\ store_ops' = << >>
                /\ UNCHANGED next_blob
           ELSE \E order \in Orders(bad_lines) :
                LET log3 == log_file_info(log2, logOK, <<"Found secrets", decoded_filename>>)
                    removed == Removed(order, decoded_filename, Len(lines))
                    log4 == log_removed(log3, logOK, removed, decoded_filename)
                    new_contents == ReEncode(Clean(lines, order, decoded_filename))
                IN  /\ store_ops' = << [op |-> "get", blob_id |-> blob_id, contents |-> contents],
                                       [op |-> "insert", blob_id |-> NewBlob(next_blob + 1),
                                        contents |-> new_contents] >>
                    /\ next_blob' = next_blob + 1
                    /\ callback_log' = log_file_info(log4, logOK,
                           <<"Modified lines", Len(removed), decoded_filename, Len(lines)>>)
                    /\ result' = Returned(Entry(filename, mode, NewBlob(next_blob + 1)))

\* The process ends and a new one starts: every globals() dictionary is
\* new, the files on disk stay as they are.
Restart ==
    /\ runs < MaxRuns
    /\ runs' = runs + 1
    /\ total_commits' = Unset
    /\ seen_hashes' = {}
    /\ processed_count' = 0
    /\ run_start' = Len(progress_file)
    /\ history' = << >>
    /\ faulted' = FALSE
    /\ findings_reads' = 0
    /\ next_blob' = 0
    /\ store_ops' = << >>
    /\ call' = [op |-> "restart"]
    /\ result' = NoValue
    /\ UNCHANGED << progress_file, callback_log, ncalls >>

----------------------------------------------------------------------------

\* The state of a fresh process with empty progress and log files.  The
\* globals seen_hashes and processed_count are created by the first commit
\* callback with exactly these values.
Init ==
    /\ total_commits = Unset
    /\ seen_hashes = {}
    /\ processed_count = 0
    /\ progress_file = << >>
    /\ callback_log = << >>
    /\ next_blob = 0
    /\ store_ops = << >>
    /\ call = [op |-> "none"]
    /\ result = NoValue
    /\ run_start = 0
    /\ history = << >>
    /\ faulted = FALSE
    /\ findings_reads = 0
    /\ ncalls = 0
    /\ runs = 1

RecordStep ==
    /\ ncalls < MaxLedgerCalls
    /\ \E commit_hash \in CommitHashes, stats \in StatsSources,
          progOK \in BOOLEAN, logOK \in BOOLEAN :
          Record(commit_hash, stats, progOK, logOK)

NextLedger == RecordStep \/ Restart

SpecLedger == Init /\ [][NextLedger]_vars

\* The message callback on every message, as the first invocation of a process.
RedactAny ==
    /\ ncalls = 0
    /\ \E message \in Messages, logOK \in BOOLEAN : Redact(message, logOK)

NextRedact == RedactAny

SpecRedact == Init /\ [][NextRedact]_vars

\* "a", "A" and "a" followed by a byte that is not valid UTF-8
Filenames == { << 97 >>, << 65 >>, << 97, 255 >> }

Modes == { "100644", "100755" }

ContentBytes == { 120, 10, 13, 255 }

RECURSIVE ByteStrings(_)
ByteStrings(n) ==
    IF n = 0 THEN { << >> }
    ELSE LET shorter == ByteStrings(n - 1)
         IN  shorter \cup { Append(c, b) : c \in shorter, b \in ContentBytes }

Contents == ByteStrings(MaxContentLen)

\* The file-info callback on every entry, content and findings source,
\* as the first invocation of a process, with a log file it can write.
ScrubAny ==
    /\ ncalls = 0
    /\ \E filename \in Filenames, mode \in Modes, contents \in Contents,
          source \in FindingsSources :
          Scrub(filename, mode, OriginalBlob(1), contents, source, TRUE)

NextScrubOnce == ScrubAny

SpecScrubOnce == Init /\ [][NextScrubOnce]_vars

\* "", "x", "x\nx\n"
SessionContents == { << >>, << 120 >>, << 120, 10, 120, 10 >> }

SessionSources ==
    { [kind |-> "unreadable", entries |-> << >>],
      [kind |-> "invalid", entries |-> << >>],
      JsonArray(<< >>),
      JsonArray(<< Finding(<< "a" >>, 1) >>),
      JsonArray(<< Finding(<< "a" >>, 2), BadEntry >>),
      JsonArray(<< Finding(<< "b" >>, 1) >>) }

\* The file-info callback as the driver calls it again and again while the
\* findings file may change between the calls.
ScrubStep ==
    /\ ncalls < MaxScrubCalls
    /\ \E filename \in Filenames, mode \in Modes, contents \in SessionContents,
          source \in SessionSources, logOK \in BOOLEAN :
          Scrub(filename, mode, OriginalBlob(1), contents, source, logOK)

NextScrub == ScrubStep \/ Restart

SpecScrub == Init /\ [][NextScrub]_vars

\* "", "SECRET", "secret", "a SECRET and SECRET"
SessionMessages ==
    { << >>, SECRET, << 115, 101, 99, 114, 101, 116 >>,
      << 109 >> \o SECRET \o << 109 >> \o SECRET }

\* The three callbacks in one process, called by the driver in any order.
RecordCall ==
    /\ ncalls < MaxCalls
    /\ \E commit_hash \in CommitHashes, stats \in StatsSources,
          progOK \in BOOLEAN, logOK \in BOOLEAN :
          Record(commit_hash, stats, progOK, logOK)

ScrubCall ==
    /\ ncalls < MaxCalls
    /\ \E filename \in Filenames, mode \in Modes, contents \in SessionContents,
          source \in SessionSources, logOK \in BOOLEAN :
          Scrub(filename, mode, OriginalBlob(1), contents, source, logOK)

RedactCall ==
    /\ ncalls < MaxCalls
    /\ \E message \in SessionMessages, logOK \in BOOLEAN : Redact(message, logOK)

Next == RecordCall \/ ScrubCall \/ RedactCall \/ Restart

Spec == Init /\ [][Next]_vars

----------------------------------------------------------------------------
(* Properties of the progress ledger *)

\* The progress lines this process has appended.
RunLines == SubSeq(progress_file, run_start + 1, Len(progress_file))

RECURSIVE FirstOccurrences(_)
FirstOccurrences(s) ==
    IF s = << >> THEN << >>
    ELSE LET rest == FirstOccurrences(SubSeq(s, 1, Len(s) - 1))
             last == s[Len(s)]
         IN  IF last \in Range(rest) THEN rest ELSE Append(rest, last)

\* C1: while every commit callback of the process has returned, the lines
\* the process appended to the progress file are exactly the distinct commit
\* hashes it was called with, one line each, in the order of their first
\* call, and the k-th of these lines carries processed = k.
C1_OneLinePerDistinctId ==
    ~faulted =>
        /\ [k \in 1..Len(RunLines) |-> RunLines[k].id] = FirstOccurrences(history)
        /\ \A k \in 1..Len(RunLines) : RunLines[k].processed = k

C1_Witness ==
    /\ ~faulted
    /\ Len(history) = 4
    /\ history[1] = history[3]
    /\ Len(RunLines) = 2

\* C10: a restart empties seen_hashes and zeroes processed_count while the
\* progress file keeps its lines; afterwards the first commit callback for a
\* hash that has a line from an earlier process, when it returns, appends
\* one more line for that hash, numbered from the hashes this process has
\* been called with (1 for the first), and leaves the earlier lines in place.
C10_DedupLostOnRestart ==
    [][ /\ (runs' # runs =>
               /\ seen_hashes' = {}
               /\ processed_count' = 0
               /\ progress_file' = progress_file)
        /\ ( ( /\ ncalls' # ncalls
               /\ call'.op = "record"
               /\ result'.kind = "returned"
               /\ call'.commit_hash \notin Range(history)
               /\ \E i \in 1..run_start : progress_file[i].id = call'.commit_hash )
             => /\ Len(progress_file') = Len(progress_file) + 1
                /\ SubSeq(progress_file', 1, Len(progress_file)) = progress_file
                /\ progress_file'[Len(progress_file')].id = call'.commit_hash
                /\ progress_file'[Len(progress_file')].processed
                       = Cardinality(Range(history)) + 1 ) ]_vars

C10_Witness ==
    /\ runs = 2
    /\ call.op = "record"
    /\ history = << call.commit_hash >>
    /\ result.kind = "returned"
    /\ Len(progress_file) = run_start + 1
    /\ progress_file[Len(progress_file)].processed = 1
    /\ \E i \in 1..run_start : progress_file[i].id = progress_file[Len(progress_file)].id

IsPrefix(s, t) == Len(s) <= Len(t) /\ SubSeq(t, 1, Len(s)) = s

\* The step is an invocation of the commit callback.
RecordDone == ncalls' # ncalls /\ call'.op = "record"

\* C11: a commit callback for a hash that is already in seen_hashes returns
\* and leaves seen_hashes, processed_count, total_commits and the progress
\* file as they were; all it may do is append COMMIT lines to the log.
C11_DuplicateChangesNothing ==
    [][ (RecordDone /\ call'.commit_hash \in seen_hashes) =>
            /\ seen_hashes' = seen_hashes
            /\ processed_count' = processed_count
            /\ total_commits' = total_commits
            /\ progress_file' = progress_file
            /\ result' = Returned(NoValue)
            /\ IsPrefix(callback_log, callback_log')
            /\ \A i \in (Len(callback_log) + 1)..Len(callback_log') :
                   callback_log'[i][1] = "COMMIT" ]_vars

\* The second call for the same hash logged that it skipped it.
C11_Witness ==
    /\ call.op = "record"
    /\ Len(history) = 2
    /\ history[1] = history[2]
    /\ Len(RunLines) = 1
    /\ processed_count = 1
    /\ callback_log # << >>
    /\ callback_log[Len(callback_log)] = <<"COMMIT", "already processed", history[2]>>

\* C13 as stated: between invocations a hash is in seen_hashes, and counted,
\* exactly when this process has appended its progress line.
C13_SeenIffLineAppended ==
    /\ seen_hashes = { RunLines[k].id : k \in 1..Len(RunLines) }
    /\ processed_count = Len(RunLines)

\* p is count / total * 100 rounded to the nearest tenth, in tenths.
NearestTenth(p, count, total) ==
    /\ 2 * (p * total - 1000 * count) <= total
    /\ 2 * (1000 * count - p * total) <= total

\* C16: a stats file that is missing, not JSON or not an object with
\* total_commits makes total_commits 0; with total_commits 0 a first call
\* for a hash either appends its line, which reports total 0 and 0.0%, or
\* fails on the progress file alone; a total, once set, stays for the
\* process; and every line with a positive total reports processed / total
\* * 100 to one decimal place.
C16_StatsFailureNotFatal ==
    /\ [][ /\ (RecordDone /\ call'.stats.kind \in {"missing", "unparsable", "array"})
               => total_commits' = IntValue(0)
           /\ (RecordDone /\ call'.stats.kind = "object" /\ ~call'.stats.has)
               => total_commits' = IntValue(0)
           /\ (runs' = runs /\ total_commits = IntValue(0))
               => total_commits' = IntValue(0)
           /\ (RecordDone /\ total_commits' = IntValue(0)
                 /\ call'.commit_hash \notin seen_hashes)
               => \/ /\ result' = Raised("progress_write")
                     /\ progress_file' = progress_file
                  \/ /\ result' = Returned(NoValue)
                     /\ progress_file' = Append(progress_file,
                            [id |-> call'.commit_hash, total |-> 0,
                             processed |-> processed_count + 1, pct |-> 0]) ]_vars
    /\ [](\A k \in 1..Len(progress_file) :
            IF progress_file[k].total > 0
            THEN NearestTenth(progress_file[k].pct, progress_file[k].processed,
                              progress_file[k].total)
            ELSE progress_file[k].pct = 0)

\* Without a stats file two hashes were recorded with total 0 and 0.0%.
C16_Witness ==
    /\ call.op = "record"
    /\ result.kind = "returned"
    /\ Len(history) = 2
    /\ Len(RunLines) = 2
    /\ total_commits = IntValue(0)
    /\ \A k \in 1..2 : RunLines[k].total = 0 /\ RunLines[k].pct = 0

\* C17: processed_count is the size of seen_hashes; within a process it
\* never decreases and total_commits, once set, keeps its value.
C17_RunStateInvariant ==
    /\ processed_count = Cardinality(seen_hashes)
    /\ [][ /\ processed_count' = Cardinality(seen_hashes')
           /\ runs' = runs =>
                /\ processed_count' >= processed_count
                /\ seen_hashes \subseteq seen_hashes'
                /\ total_commits.kind # "unset" => total_commits' = total_commits
         ]_vars

\* Two hashes counted after four calls, one of which raised, with the total
\* read at the first call.
C17_Witness ==
    /\ Len(history) = 4
    /\ faulted
    /\ processed_count = 2
    /\ total_commits = IntValue(3)
    /\ call.op = "record"
    /\ call.stats.kind = "notread"


----------------------------------------------------------------------------
(* Properties of the message redactor *)

\* C5: the message the callback returns is a fixed point of the callback
\* and does not contain SECRET.
C5_RedactIdempotent ==
    (call.op = "redact" /\ result.kind = "returned") =>
        /\ redact(result.value.bytes) = result.value.bytes
        /\ ~Contains(result.value.bytes, SECRET)

\* "SEC" "SECRET" "RET" went in, "SEC" "[REDACTED]" "RET" came out.
C5_Witness ==
    /\ call.op = "redact"
    /\ call.message = << 83, 69, 67 >> \o SECRET \o << 82, 69, 84 >>
    /\ result.kind = "returned"
    /\ result.value.bytes = << 83, 69, 67 >> \o REDACTED \o << 82, 69, 84 >>

\* C6: a message without the byte sequence SECRET is returned as it came.
C6_NoSecretUnchanged ==
    (call.op = "redact" /\ ~Contains(call.message, SECRET)) =>
        /\ result.kind = "returned"
        /\ result.value.bytes = call.message

\* "secret" "Secret" came back unchanged.
C6_Witness ==
    /\ call.op = "redact"
    /\ call.message = << 115, 101, 99, 114, 101, 116, 83, 101, 99, 114, 101, 116 >>
    /\ result.kind = "returned"
    /\ result.value.bytes = call.message

----------------------------------------------------------------------------
(* Properties of the blob scrubber *)

Scrubbed == call.op = "scrub" /\ result.kind = "returned"

\* The last invocation fetched the blob and stored a new one.
Rewrote == Scrubbed /\ Len(store_ops) = 2

Fetched == store_ops[1].contents

Written == store_ops[2].contents

\* The line numbers the findings source lists for the path of the last call.
FindingLines ==
    { call.source.entries[i].StartLine :
        i \in { j \in 1..Len(call.source.entries) :
                  call.source.entries[j].File = decode(call.filename) } }

\* C2: an entry whose decoded path equals the path of no finding comes back
\* as the same (filename, mode, blob_id) and the driver is asked neither for
\* the blob's contents nor to store a blob.
C2_NoFindingPassThrough ==
    (call.op = "scrub" /\ Loadable(call.source) /\ FindingLines = {}) =>
        /\ result = Returned(Entry(call.filename, call.mode, call.blob_id))
        /\ store_ops = << >>
        /\ next_blob = 0

\* Path "A" while the only finding is for "a".
C2_Witness ==
    /\ call.op = "scrub"
    /\ call.filename = << 65 >>
    /\ call.mode = "100755"
    /\ call.source = JsonArray(<< Finding(<< "a" >>, 1) >>)
    /\ result.kind = "returned"

EndsWithNewline(bytes) == bytes # << >> /\ bytes[Len(bytes)] = 10

EndsWithTwoNewlines(bytes) ==
    Len(bytes) >= 2 /\ bytes[Len(bytes)] = 10 /\ bytes[Len(bytes) - 1] = 10

\* C3 as stated: the content written ends with a newline and not with two.
C3_ExactlyOneTrailingNewline ==
    Rewrote => EndsWithNewline(Written) /\ ~EndsWithTwoNewlines(Written)

\* C3, amended: the content written ends with a newline; it ends with two
\* exactly when the content has at least two lines and the last of them is
\* empty or is blanked by a finding.
C3_TrailingNewline ==
    Rewrote =>
        LET lines == splitlines(decode(Fetched))
            N == Len(lines)
        IN  /\ EndsWithNewline(Written)
            /\ EndsWithTwoNewlines(Written)
                  <=> (N >= 2 /\ (lines[N] = << >> \/ N \in FindingLines))

\* "x\nx" with a finding at line 2 is written as "x\n\n".
C3_Witness ==
    /\ Rewrote
    /\ Fetched = << 120, 10, 120 >>
    /\ 2 \in FindingLines
    /\ Written = << 120, 10, 10 >>

\* C4 as stated: with findings only at line 0 or N+1 the bytes written are
\* the bytes fetched.
C4_BoundaryBytesUnchanged ==
    LET N == Len(splitlines(decode(Fetched)))
    IN  (Rewrote /\ FindingLines \subseteq {0, N + 1}) => Written = Fetched

RECURSIVE EachLineTerminated(_)
EachLineTerminated(lines) ==
    IF lines = << >> THEN << >>
    ELSE encode(Head(lines)) \o << 10 >> \o EachLineTerminated(Tail(lines))

\* Valid UTF-8, not empty, ending with "\n" and with no other line end.
NewlineTerminatedText(bytes) ==
    /\ EndsWithNewline(bytes)
    /\ \A i \in 1..Len(bytes) : bytes[i] # 13 /\ bytes[i] \in DOMAIN Chars

\* C4, amended: with findings only at line 0 or N+1 no line is blanked: the
\* bytes written are the lines of the content, each followed by one
\* newline (a single newline when the content has no line), and they are
\* the bytes fetched exactly when those are non-empty valid text that ends
\* with a newline and has no other kind of line end.
C4_BoundaryLinesUnchanged ==
    LET lines == splitlines(decode(Fetched))
    IN  (Rewrote /\ FindingLines \subseteq {0, Len(lines) + 1}) =>
            /\ Written = IF lines = << >> THEN << 10 >> ELSE EachLineTerminated(lines)
            /\ Written = Fetched <=> NewlineTerminatedText(Fetched)

\* "x\n" with findings at lines 0 and 2 is written as "x\n".
C4_Witness ==
    /\ Rewrote
    /\ Fetched = << 120, 10 >>
    /\ FindingLines = {0, 2}
    /\ Written = Fetched

\* C7 as stated: a process opens the findings file at most once.
C7_FindingsReadOnce == findings_reads <= 1

\* C9: an invocation that finds the findings file unreadable, not JSON or
\* with an entry it cannot use raises, whether it is the first of the
\* process or a later one, and asks the driver for nothing.
C9_LoadFailureRaises ==
    (call.op = "scrub" /\ ~Loadable(call.source)) =>
        /\ result.kind = "raised"
        /\ store_ops = << >>

\* The second invocation of a process, on a file whose second entry is unusable.
C9_Witness ==
    /\ call.op = "scrub"
    /\ runs = 1
    /\ ncalls = 2
    /\ call.source = JsonArray(<< Finding(<< "a" >>, 2), BadEntry >>)
    /\ call.filename = << 97 >>
    /\ result.kind = "raised"

\* The lines of the content fetched, those with a finding emptied.
ExpectedLines ==
    LET lines == splitlines(decode(Fetched))
    IN  [ k \in 1..Len(lines) |-> IF k \in FindingLines THEN << >> ELSE lines[k] ]

\* C12: the content written is the N lines of the content fetched, in their
\* order, each followed by a newline (a single newline when N = 0), where
\* exactly the lines k in 1..N that a finding names for this path are empty;
\* read back it has these N lines.  Only the set of findings of the path
\* enters, not their order, their number of copies or other paths' findings.
C12_ExactlyFindingLinesBlanked ==
    Rewrote =>
        /\ Written = IF Len(ExpectedLines) = 0 THEN << 10 >>
                     ELSE EachLineTerminated(ExpectedLines)
        /\ Len(ExpectedLines) >= 1 => splitlines(decode(Written)) = ExpectedLines

\* "x\nx" with a finding for "b" at line 1 and one for "a" at line 2: line 1
\* stays, line 2 is emptied.
C12_Witness ==
    /\ Rewrote
    /\ call.source = JsonArray(<< Finding(<< "b" >>, 1), Finding(<< "a" >>, 2) >>)
    /\ Fetched = << 120, 10, 120 >>
    /\ Written = << 120, 10, 10 >>

\* C15: cleaning the content written once more, with the same findings in
\* any order, gives the content written.
C15_ScrubIdempotent ==
    Rewrote =>
        \A order \in Orders(LoadFindings(call.source).bad_lines) :
            CleanedContents(Written, order, decode(call.filename)) = Written

\* Empty content with a finding at line 1: out of range the first time, in
\* range the second.
C15_Witness ==
    /\ Rewrote
    /\ Fetched = << >>
    /\ FindingLines = {1}
    /\ Written = << 10 >>

----------------------------------------------------------------------------
(* Properties of the three callbacks together *)

\* C8 as stated: no callback raises because a write to the log file or to
\* the progress file failed.
C8_WriteFailuresIgnored ==
    result.kind = "raised" => result.error \notin {"log_write", "progress_write"}

\* C14: no step, whichever callback or restart it is, changes or removes
\* what the progress file and the log file already hold: the old content is
\* a prefix of the new.
C14_FilesAppendOnly ==
    [][ /\ IsPrefix(progress_file, progress_file')
        /\ IsPrefix(callback_log, callback_log') ]_vars

\* A second process has added a progress line and log lines to those of the first.
C14_Witness ==
    /\ runs = 2
    /\ run_start = 1
    /\ Len(progress_file) = 2
    /\ Len(callback_log) = 4

====
